---- MODULE Spec2Model ----
(***************************************************************************)
(* Session lifecycle and signaling orchestration of the SFU in             *)
(* src/main.go: the publisher/viewer registries, the cookie session store  *)
(* the handlers look sessions up in, the offer/answer handlers, the        *)
(* candidate post/poll handlers and the Transport Engine callbacks.        *)
(*                                                                         *)
(* The Transport Engine (pion PeerConnection) is a black box: an instance  *)
(* records whether its descriptions are set, which candidates were added   *)
(* to it and which callbacks are registered, and it emits candidate,       *)
(* track and connection-state events.                                      *)
(*                                                                         *)
(* The session store is sessions.NewCookieStore (main.go:24): the whole    *)
(* Values map of a session travels in the cookie, gob-encoded on Save and  *)
(* gob-decoded on Get.  gob encodes the exported fields of a struct only,  *)
(* refuses a struct type without exported fields, and decoding allocates   *)
(* a new object.  A CookieStore never assigns Session.ID.                  *)
(***************************************************************************)
EXTENDS Integers, Sequences, FiniteSets, TLC

(* ------------------------------ bounds --------------------------------- *)
NumClients == 2
MaxReq == 2
MaxGather == 2
MaxTracks == 2
MaxUnits == 1

(* ------------------------- program constants --------------------------- *)
nil == 0
NoResponse == 0
StatusOK == 200
StatusBadRequest == 400
StatusInternalServerError == 500
StatusServiceUnavailable == 503

Clients == 1..NumClients
OfferBodies == {"garbage", "answer", "offer"}
ConnStates == {"connecting", "connected", "disconnected", "failed", "closed"}
Roles == {"P", "V"}

VARIABLES
    publishers,  \* registry: session id -> Publisher object (nil: no entry)
    viewers,     \* registry: session id -> Viewer object (nil: no entry)
    pubHeap,     \* the Publisher objects allocated so far, by address
    viewHeap,    \* the Viewer objects allocated so far, by address
    peers,       \* the Transport Engine instances created so far, by address
    cookie,      \* per client: the session cookie its browser holds
    reqs,        \* the HTTP requests received so far, with their progress
    tracks,      \* the forwarding sinks created so far: the units written to each
    watchdog,    \* what the last sweep of the watchdog logged
    locks        \* the registry mutexes that are held: <<mutex, holder>>

vars == <<publishers, viewers, pubHeap, viewHeap, peers, cookie, reqs, tracks, watchdog,
          locks>>

(* --------------------------- data structures --------------------------- *)
\* type Publisher struct, as allocated by &Publisher{}
ZeroPublisher ==
    [peerConnectionPublisher |-> nil,
     publisherTrack |-> nil,
     iceCandidatesP |-> <<>>,
     pendingRemoteCandidatesP |-> <<>>,
     Valid |-> FALSE]

\* type Viewer struct, as allocated by &Viewer{}
ZeroViewer ==
    [peerConnectionViewer |-> nil,
     iceCandidatesV |-> <<>>,
     pendingRemoteCandidatesV |-> <<>>,
     valid |-> FALSE]

\* A fresh Transport Engine instance, owned by object `owner` of role `role`.
\*   callbacks: the callbacks registered on it
\*   added:     the remote candidates AddICECandidate handed to it
\*   track:     the local track AddTrack attached to it (viewer)
\*   relay:     per remote track it announced, the goroutine relaying it
NewPeerConnection(role, owner) ==
    [role |-> role,
     owner |-> owner,
     callbacks |-> {},
     remoteDescription |-> FALSE,
     localDescription |-> FALSE,
     added |-> <<>>,
     track |-> nil,
     connState |-> "new",
     nCand |-> 0,
     nTrack |-> 0,
     relay |-> <<>>]

\* The handlers without their OnConnectionStateChange registration.
CallbacksOfNoState(role) ==
    IF role = "P" THEN {"candidate", "track"} ELSE {"candidate"}

\* The callbacks each handler registers before it sets the remote description.
CallbacksOf(role) ==
    IF role = "P" THEN {"candidate", "state", "track"} ELSE {"candidate", "state"}

(* ------------------------- cookie session store ------------------------ *)
\* A browser without a session cookie.
NoCookie == [present |-> FALSE, Valid |-> FALSE]

\* Session.ID of the session store.Get returns for client c: a CookieStore
\* leaves it at its zero value, so every client's registry key is "".
SessionID(c) == ""

SessionIDs == {SessionID(c) : c \in Clients}

\* gob encoding of Values["Publisher"]: the exported field Valid only.
GobEncodePublisher(p) == [present |-> TRUE, Valid |-> p.Valid]

\* gob decoding of Values["Publisher"]: a newly allocated Publisher whose
\* unexported fields are zero.
GobDecodePublisher(ck) == [ZeroPublisher EXCEPT !.Valid = ck.Valid]

\* gob encoding of a Values map holding a *Viewer: Viewer has no exported
\* field, so the encoding fails and Save sets no cookie.
GobEncodeViewerOk == FALSE

\* The Set-Cookie header of a response: none, or a cookie.
NoSetCookie == [set |-> FALSE, value |-> NoCookie]
SetCookie(ck) == [set |-> TRUE, value |-> ck]

\* store.Get(r, "session-id"): the Values decoded from the request's cookie.
storeGet(ck) ==
    [IsNew |-> ~ck.present,
     hasPublisher |-> ck.present,
     Publisher |-> GobDecodePublisher(ck),
     hasViewer |-> FALSE,
     Viewer |-> ZeroViewer]

\* lookupPublisher reading the registry instead of session.Values: the
\* object publishers maps the session id to, with what it holds now.
lookupPublisherRegistered(ck, create) ==
    LET o == publishers[""] IN
    [panic |-> ~create /\ o = nil,
     p |-> IF o = nil THEN ZeroPublisher ELSE pubHeap[o],
     created |-> create /\ o = nil,
     setCookie |-> NoSetCookie]

\* lookupPublisher(w, r, caller, create) on a request carrying cookie ck.
\*   panic:     p.(*Publisher) on a nil interface value (create = false)
\*   p:         the object returned
\*   created:   a new Publisher was allocated and inserted in the registry
\*   setCookie: the cookie session.Save sends back, if it sends one
lookupPublisher(ck, create) ==
    LET session == storeGet(ck) IN
    IF ~create
    THEN [panic |-> ~session.hasPublisher,
          p |-> session.Publisher,
          created |-> FALSE,
          setCookie |-> NoSetCookie]
    ELSE IF ~session.hasPublisher
    THEN [panic |-> FALSE,
          p |-> ZeroPublisher,
          created |-> TRUE,
          setCookie |-> SetCookie(GobEncodePublisher(ZeroPublisher))]
    ELSE [panic |-> FALSE,
          p |-> session.Publisher,
          created |-> FALSE,
          setCookie |-> SetCookie(GobEncodePublisher(session.Publisher))]

\* lookupViewer(w, r) on a request carrying cookie ck.  The Values to save
\* hold a *Viewer in either branch, and the error of session.Save is dropped.
lookupViewer(ck) ==
    LET session == storeGet(ck)
        saved == IF GobEncodeViewerOk THEN SetCookie(ck) ELSE NoSetCookie
    IN
    IF ~session.hasViewer
    THEN [v |-> ZeroViewer, created |-> TRUE, setCookie |-> saved]
    ELSE [v |-> session.Viewer, created |-> FALSE, setCookie |-> saved]

(* ------------------------------ responses ------------------------------ *)
\* http.Error / WriteHeader(code) and return: the status line is the first one
\* written; a later WriteHeader on the same response is ignored.
Respond(r, code) ==
    [r EXCEPT !.status = IF r.wrote THEN r.status ELSE code,
              !.wrote = TRUE,
              !.at = "done"]

\* The browser stores the Set-Cookie header of a response it receives.
Deliver(r) ==
    IF r.setCookie.set THEN [cookie EXCEPT ![r.client] = r.setCookie.value] ELSE cookie

Init ==
    /\ publishers = [s \in SessionIDs |-> nil]
    /\ viewers = [s \in SessionIDs |-> nil]
    /\ pubHeap = <<>>
    /\ viewHeap = <<>>
    /\ peers = <<>>
    /\ cookie = [c \in Clients |-> NoCookie]
    /\ reqs = <<>>
    /\ tracks = <<>>
    /\ watchdog = 0
    /\ locks = {}

(* Addresses.  Request i allocates at most one Publisher, one Viewer and     *)
(* one transport instance: each is addressed i in its own heap.             *)

\* Browsers are interchangeable: the next browser to show up is the lowest
\* numbered one that has not sent anything yet.
Seen == {reqs[i].client : i \in 1..Len(reqs)}

\* The Go runtime ended the process with a fatal error: nothing runs any more.
Crashed == \E i \in 1..Len(reqs) : reqs[i].fatal

Senders == IF Crashed THEN {} ELSE {c \in Clients : c <= Cardinality(Seen) + 1}

\* The handlers in progress and the transport instances that can call back.
Running == IF Crashed THEN {} ELSE 1..Len(reqs)
Engines == IF Crashed THEN {} ELSE DOMAIN peers

\* The task of startWatchdog, as a holder of mutexes (requests are 1, 2, ...).
WatchdogTask == 0

\* The mutexes: the two of the registry, and those of the Publisher or Viewer
\* at address o.
lpublishers == <<"lpublishers", nil>>
lviewers == <<"lviewers", nil>>
trackMutex(o) == <<"trackMutex", o>>
iceMutexP(o) == <<"iceMutexP", o>>
iceMutexV(o) == <<"iceMutexV", o>>
remoteCandidatesMtxP(o) == <<"remoteCandidatesMtxP", o>>
remoteCandidatesMtxV(o) == <<"remoteCandidatesMtxV", o>>
lvalid(o) == <<"lvalid", o>>

\* sync.Mutex: whether mutex m is free, and Lock / Unlock by holder h.
Free(m) == \A x \in locks : x[1] # m
Lock(held, m, h) == held \cup {<<m, h>>}
Unlock(held, m, h) == held \ {<<m, h>>}

\* An offer/answer request as the handler receives it, from a browser that
\* sends its current cookie.
Received(h, c, body) ==
    [handler |-> h, client |-> c, body |-> body, cand |-> <<>>, cookie |-> cookie[c],
     at |-> "lookup", sel |-> nil, status |-> NoResponse, wrote |-> FALSE,
     setCookie |-> NoSetCookie, panic |-> FALSE, candidates |-> <<>>,
     engineFailed |-> FALSE, fatal |-> FALSE]

(* ----------------------------- /publish -------------------------------- *)
\* publishHandler, lines 121-133: lookupPublisher(create = true), the cookie
\* echo into the response body, and the decoding of the offer.  A request
\* that creates its Publisher stops once it holds lpublishers (line 349).
PubLookup(c, body) ==
    LET i == Len(reqs) + 1
        r == Received("publish", c, body)
        res == lookupPublisher(r.cookie, TRUE)
        r1 == [r EXCEPT !.setCookie = res.setCookie,
                        !.wrote = r.cookie.present,
                        !.status = IF r.cookie.present THEN StatusOK ELSE NoResponse,
                        !.at = "newpc"]
        r2 == IF body = "garbage" THEN Respond(r1, StatusBadRequest) ELSE r1
    IN
    /\ i <= MaxReq
    /\ pubHeap' = (i :> res.p) @@ pubHeap
    /\ IF res.created
       THEN /\ Free(lpublishers)
            /\ locks' = Lock(locks, lpublishers, i)
            /\ reqs' = Append(reqs, [r EXCEPT !.at = "insert"])
            /\ UNCHANGED cookie
       ELSE /\ reqs' = Append(reqs, r2)
            /\ cookie' = IF r2.at = "done" THEN Deliver(r2) ELSE cookie
            /\ UNCHANGED locks
    /\ UNCHANGED <<publishers, viewers, viewHeap, peers, tracks, watchdog>>

\* lookupPublisher, lines 350-352, and what follows up to line 133 for a
\* request whose Publisher was just created: the registry entry is written
\* and lpublishers released, the session is saved, the offer decoded.
PubInsert(i) ==
    LET r == reqs[i]
        res == lookupPublisher(r.cookie, TRUE)
        r1 == [r EXCEPT !.setCookie = res.setCookie, !.at = "newpc"]
        r2 == IF r.body = "garbage" THEN Respond(r1, StatusBadRequest) ELSE r1
    IN
    /\ r.handler = "publish" /\ r.at = "insert"
    /\ publishers' = [publishers EXCEPT ![SessionID(r.client)] = i]
    /\ locks' = Unlock(locks, lpublishers, i)
    /\ reqs' = [reqs EXCEPT ![i] = r2]
    /\ cookie' = IF r2.at = "done" THEN Deliver(r2) ELSE cookie
    /\ UNCHANGED <<viewers, pubHeap, viewHeap, peers, tracks, watchdog>>

\* The outcomes of the Transport Engine calls of publishHandler, lines 168-188.
PubEngineOutcomes == {"ok", "NewPeerConnection", "AddTrack"}

\* A Transport Engine call of request r failed and the handler answers code.
EngineFailed(r, code) == Respond([r EXCEPT !.engineFailed = TRUE], code)

\* publishHandler, lines 168-188: the transport instance is created (500 when
\* that fails) and stored, and the output track is added to it (400 when that
\* fails).
PubNewPC(i, outcome) ==
    LET r == reqs[i] IN
    /\ r.handler = "publish" /\ r.at = "newpc"
    /\ IF outcome = "NewPeerConnection"
       THEN /\ reqs' = [reqs EXCEPT ![i] = EngineFailed(r, StatusInternalServerError)]
            /\ cookie' = Deliver(r)
            /\ UNCHANGED <<peers, pubHeap>>
       ELSE /\ peers' = (i :> NewPeerConnection("P", i)) @@ peers
            /\ pubHeap' = [pubHeap EXCEPT ![i].peerConnectionPublisher = i]
            /\ IF outcome = "AddTrack"
               THEN /\ reqs' = [reqs EXCEPT ![i] = EngineFailed(r, StatusBadRequest)]
                    /\ cookie' = Deliver(r)
               ELSE /\ reqs' = [reqs EXCEPT ![i].at = "callbacks"]
                    /\ UNCHANGED cookie
    /\ UNCHANGED <<publishers, viewers, viewHeap, tracks, watchdog, locks>>

(* ------------------------------- /view --------------------------------- *)
\* viewHandler, lines 366-374: lookupViewer and the decoding of the offer.
ViewLookup(c, body) ==
    LET i == Len(reqs) + 1
        r == Received("view", c, body)
        res == lookupViewer(r.cookie)
        r1 == [r EXCEPT !.setCookie = res.setCookie, !.at = "newpc"]
        r2 == IF body = "garbage" THEN Respond(r1, StatusBadRequest) ELSE r1
    IN
    /\ i <= MaxReq
    /\ res.created => Free(lviewers)
    /\ viewHeap' = (i :> res.v) @@ viewHeap
    /\ viewers' = IF res.created
                  THEN [viewers EXCEPT ![SessionID(c)] = i]
                  ELSE viewers
    /\ reqs' = Append(reqs, r2)
    /\ cookie' = IF r2.at = "done" THEN Deliver(r2) ELSE cookie
    /\ UNCHANGED <<publishers, pubHeap, peers, tracks, watchdog, locks>>

\* viewHandler, lines 377-384: the transport instance is created (500 when
\* that fails) and stored.
ViewNewPC(i, ok) ==
    LET r == reqs[i] IN
    /\ r.handler = "view" /\ r.at = "newpc"
    /\ IF ok
       THEN /\ peers' = (i :> NewPeerConnection("V", i)) @@ peers
            /\ viewHeap' = [viewHeap EXCEPT ![i].peerConnectionViewer = i]
            /\ reqs' = [reqs EXCEPT ![i].at = "select"]
            /\ UNCHANGED cookie
       ELSE /\ reqs' = [reqs EXCEPT ![i] = EngineFailed(r, StatusInternalServerError)]
            /\ cookie' = Deliver(r)
            /\ UNCHANGED <<peers, viewHeap>>
    /\ UNCHANGED <<publishers, viewers, pubHeap, tracks, watchdog, locks>>

\* The registered publishers, the entries `for _, p := range publishers` visits.
Registered == {publishers[s] : s \in {t \in SessionIDs : publishers[t] # nil}}

\* randPublisher without its test of p.Valid: any registered publisher.
randPublisherAnyRegistered == IF Registered = {} THEN {nil} ELSE Registered

\* randPublisher with its test inverted (if !p.Valid).
randPublisherInverted ==
    LET invalid == {o \in Registered : ~pubHeap[o].Valid}
    IN IF invalid = {} THEN {nil} ELSE invalid

\* randPublisher(), lines 479-486: the values the scan can return.  Go
\* iterates a map in an unspecified order, so any registered publisher whose
\* Valid is set can be the one returned; nil when there is none.
randPublisher ==
    LET valid == {o \in Registered : pubHeap[o].Valid}
    IN IF valid = {} THEN {nil} ELSE valid

\* Whether a handler is writing the publishers map (it holds lpublishers
\* between lines 349 and 352).
MapWriteInProgress == \E j \in 1..Len(reqs) : reqs[j].at = "insert"

\* viewHandler, lines 386-391: a publisher is selected, or 503.  randPublisher
\* takes no lock: when its range over the map runs while a handler writes the
\* map, the scan sees the map before or after the write, or the runtime ends
\* the process ("fatal error: concurrent map iteration and map write").
ViewSelect(i) ==
    LET r == reqs[i] IN
    /\ r.handler = "view" /\ r.at = "select"
    /\ \/ \E p \in randPublisher :
            IF p = nil
            THEN /\ reqs' = [reqs EXCEPT ![i] = Respond(r, StatusServiceUnavailable)]
                 /\ cookie' = Deliver(r)
            ELSE /\ reqs' = [reqs EXCEPT ![i].sel = p, ![i].at = "attach"]
                 /\ UNCHANGED cookie
       \/ /\ MapWriteInProgress
          /\ reqs' = [reqs EXCEPT ![i].fatal = TRUE, ![i].at = "done"]
          /\ UNCHANGED cookie
    /\ UNCHANGED <<publishers, viewers, pubHeap, viewHeap, peers, tracks, watchdog, locks>>

\* viewHandler without the test of line 394: whatever p.publisherTrack holds
\* is added to the viewer's transport.
ViewAttachAbsentSink(i, ok) ==
    LET r == reqs[i] IN
    /\ r.handler = "view" /\ r.at = "attach"
    /\ Free(trackMutex(r.sel))
    /\ IF ~ok
       THEN /\ reqs' = [reqs EXCEPT ![i] = EngineFailed(r, StatusInternalServerError)]
            /\ cookie' = Deliver(r)
            /\ UNCHANGED peers
       ELSE /\ peers' = [peers EXCEPT ![i].track = pubHeap[r.sel].publisherTrack]
            /\ reqs' = [reqs EXCEPT ![i].at = "callbacks"]
            /\ UNCHANGED cookie
    /\ UNCHANGED <<publishers, viewers, pubHeap, viewHeap, tracks, watchdog, locks>>

\* viewHandler returning its 503 of line 396 without the Unlock of line 397.
ViewAttachKeepingLock(i, ok) ==
    LET r == reqs[i] IN
    /\ r.handler = "view" /\ r.at = "attach"
    /\ Free(trackMutex(r.sel))
    /\ IF pubHeap[r.sel].publisherTrack = nil
       THEN /\ reqs' = [reqs EXCEPT ![i] = Respond(r, StatusServiceUnavailable)]
            /\ cookie' = Deliver(r)
            /\ locks' = Lock(locks, trackMutex(r.sel), i)
            /\ UNCHANGED peers
       ELSE IF ~ok
       THEN /\ reqs' = [reqs EXCEPT ![i] = EngineFailed(r, StatusInternalServerError)]
            /\ cookie' = Deliver(r)
            /\ UNCHANGED <<peers, locks>>
       ELSE /\ peers' = [peers EXCEPT ![i].track = pubHeap[r.sel].publisherTrack]
            /\ reqs' = [reqs EXCEPT ![i].at = "callbacks"]
            /\ UNCHANGED <<cookie, locks>>
    /\ UNCHANGED <<publishers, viewers, pubHeap, viewHeap, tracks, watchdog>>

\* viewHandler attaching a track object of its own instead of the selected
\* publisher's publisherTrack.
ViewAttachCopy(i, ok) ==
    LET r == reqs[i] IN
    /\ r.handler = "view" /\ r.at = "attach"
    /\ Free(trackMutex(r.sel))
    /\ pubHeap[r.sel].publisherTrack # nil /\ ok
    /\ peers' = [peers EXCEPT ![i].track = i * (MaxTracks + 1)]
    /\ reqs' = [reqs EXCEPT ![i].at = "callbacks"]
    /\ UNCHANGED <<publishers, viewers, pubHeap, viewHeap, cookie, tracks, watchdog, locks>>

\* viewHandler, lines 393-410: 503 when the selected publisher has no
\* publisherTrack yet, else the track is added to the viewer's transport
\* (500 when that fails).
ViewAttach(i, ok) ==
    LET r == reqs[i] IN
    /\ r.handler = "view" /\ r.at = "attach"
    /\ Free(trackMutex(r.sel))
    /\ IF pubHeap[r.sel].publisherTrack = nil
       THEN /\ reqs' = [reqs EXCEPT ![i] = Respond(r, StatusServiceUnavailable)]
            /\ cookie' = Deliver(r)
            /\ UNCHANGED peers
       ELSE IF ~ok
       THEN /\ reqs' = [reqs EXCEPT ![i] = EngineFailed(r, StatusInternalServerError)]
            /\ cookie' = Deliver(r)
            /\ UNCHANGED peers
       ELSE /\ peers' = [peers EXCEPT ![i].track = pubHeap[r.sel].publisherTrack]
            /\ reqs' = [reqs EXCEPT ![i].at = "callbacks"]
            /\ UNCHANGED cookie
    /\ UNCHANGED <<publishers, viewers, pubHeap, viewHeap, tracks, watchdog, locks>>

(* -------------------- the common tail of both handlers ----------------- *)
\* lines 203-274 (publisher) and 412-446 (viewer): OnICECandidate,
\* OnConnectionStateChange and OnTrack are registered.
RegisterCallbacks(i) ==
    LET r == reqs[i] IN
    /\ r.at = "callbacks"
    /\ peers' = [peers EXCEPT ![i].callbacks = CallbacksOf(peers[i].role)]
    /\ reqs' = [reqs EXCEPT ![i].at = "setremote"]
    /\ UNCHANGED <<publishers, viewers, pubHeap, viewHeap, cookie, tracks, watchdog, locks>>

\* lines 276-283 (publisher) and 448-455 (viewer): SetRemoteDescription(offer).
\* The Transport Engine refuses a description of type "answer" on a new
\* instance; the handler answers 500.  Nothing else is done at this point.
SetRemoteDescription(i) ==
    LET r == reqs[i] IN
    /\ r.at = "setremote"
    /\ IF r.body = "offer"
       THEN /\ peers' = [peers EXCEPT ![i].remoteDescription = TRUE]
            /\ reqs' = [reqs EXCEPT ![i].at = "answer"]
            /\ UNCHANGED cookie
       ELSE /\ reqs' = [reqs EXCEPT ![i] = EngineFailed(r, StatusInternalServerError)]
            /\ cookie' = Deliver(r)
            /\ UNCHANGED peers
    /\ UNCHANGED <<publishers, viewers, pubHeap, viewHeap, tracks, watchdog, locks>>

\* lines 285-307 (publisher) and 457-476 (viewer): CreateAnswer,
\* SetLocalDescription (500 when one of them fails), and the answer is written.
Answer(i, ok) ==
    LET r == reqs[i] IN
    /\ r.at = "answer"
    /\ IF ok
       THEN /\ peers' = [peers EXCEPT ![i].localDescription = TRUE]
            /\ reqs' = [reqs EXCEPT ![i] = Respond(r, StatusOK)]
       ELSE /\ reqs' = [reqs EXCEPT ![i] = EngineFailed(r, StatusInternalServerError)]
            /\ UNCHANGED peers
    /\ cookie' = Deliver(r)
    /\ UNCHANGED <<publishers, viewers, pubHeap, viewHeap, tracks, watchdog, locks>>

(* ---------------------- Transport Engine callbacks --------------------- *)
\* The candidate the k-th transport discovers n-th.
LocalCand(k, n) == <<"local", k, n>>

\* OnICECandidate returning without appending the candidate it was handed.
OnICECandidateDropping(k) ==
    LET pc == peers[k] IN
    /\ "candidate" \in pc.callbacks /\ pc.localDescription /\ pc.nCand < MaxGather
    /\ peers' = [peers EXCEPT ![k].nCand = @ + 1]
    /\ UNCHANGED <<publishers, viewers, pubHeap, viewHeap, cookie, reqs, tracks,
                   watchdog, locks>>

\* OnICECandidate, lines 207-213 and 412-418: a non-nil local candidate is
\* appended to the owner's outbound queue under its ice mutex.  Gathering
\* starts when the local description is set.
OnICECandidate(k) ==
    LET pc == peers[k]
        c == LocalCand(k, pc.nCand + 1)
    IN
    /\ "candidate" \in pc.callbacks /\ pc.localDescription /\ pc.nCand < MaxGather
    /\ Free(IF pc.role = "P" THEN iceMutexP(pc.owner) ELSE iceMutexV(pc.owner))
    /\ peers' = [peers EXCEPT ![k].nCand = @ + 1]
    /\ IF pc.role = "P"
       THEN /\ pubHeap' = [pubHeap EXCEPT ![pc.owner].iceCandidatesP = Append(@, c)]
            /\ UNCHANGED viewHeap
       ELSE /\ viewHeap' = [viewHeap EXCEPT ![pc.owner].iceCandidatesV = Append(@, c)]
            /\ UNCHANGED pubHeap
    /\ UNCHANGED <<publishers, viewers, cookie, reqs, tracks, watchdog, locks>>

\* The callback without its test for PeerConnectionStateClosed.
validAfterIgnoresClosed(valid, s) ==
    IF s = "connected" THEN TRUE
    ELSE IF s = "failed" THEN FALSE
    ELSE valid

\* The callback also clearing the flag when it reports "disconnected".
validAfterDisconnectedClears(valid, s) ==
    IF s = "connected" THEN TRUE
    ELSE IF s \in {"failed", "closed", "disconnected"} THEN FALSE
    ELSE valid

\* The validity flag after the connection-state callback reported s,
\* lines 218-235 and 428-445.
validAfter(valid, s) ==
    IF s = "connected" THEN TRUE
    ELSE IF s \in {"failed", "closed"} THEN FALSE
    ELSE valid

\* The callback of a publisher also marking invalid the viewers whose transport
\* carries the publisher's sink, when it reports "failed" or "closed".
OnConnectionStateChangeNotifying(k, s) ==
    LET pc == peers[k]
        bound == {j \in DOMAIN peers :
                    /\ peers[j].role = "V" /\ peers[j].track # nil
                    /\ peers[j].track = pubHeap[pc.owner].publisherTrack}
    IN
    /\ "state" \in pc.callbacks /\ pc.localDescription /\ pc.remoteDescription
    /\ s # pc.connState /\ pc.connState # "closed"
    /\ peers' = [peers EXCEPT ![k].connState = s]
    /\ IF pc.role = "P"
       THEN /\ pubHeap' = [pubHeap EXCEPT ![pc.owner].Valid = validAfter(@, s)]
            /\ viewHeap' = [o \in DOMAIN viewHeap |->
                               IF s \in {"failed", "closed"} /\ o \in bound
                               THEN [viewHeap[o] EXCEPT !.valid = FALSE]
                               ELSE viewHeap[o]]
       ELSE /\ viewHeap' = [viewHeap EXCEPT ![pc.owner].valid = validAfter(@, s)]
            /\ UNCHANGED pubHeap
    /\ UNCHANGED <<publishers, viewers, cookie, reqs, tracks, watchdog, locks>>

\* OnConnectionStateChange, lines 215-236 and 425-446.  The engine reports a
\* state once both descriptions are set, and none after "closed"; it can
\* leave "failed" and "disconnected" again.
OnConnectionStateChange(k, s) ==
    LET pc == peers[k] IN
    /\ "state" \in pc.callbacks /\ pc.localDescription /\ pc.remoteDescription
    /\ s # pc.connState /\ pc.connState # "closed"
    /\ Free(lvalid(pc.owner))
    /\ peers' = [peers EXCEPT ![k].connState = s]
    /\ IF pc.role = "P"
       THEN /\ pubHeap' = [pubHeap EXCEPT ![pc.owner].Valid = validAfter(@, s)]
            /\ UNCHANGED viewHeap
       ELSE /\ viewHeap' = [viewHeap EXCEPT ![pc.owner].valid = validAfter(@, s)]
            /\ UNCHANGED pubHeap
    /\ UNCHANGED <<publishers, viewers, cookie, reqs, tracks, watchdog, locks>>

\* The sink NewTrackLocalStaticRTP returns in the n-th track event of
\* transport k: a new object each time it is called.
SinkOf(k, n) == k * (MaxTracks + 1) + n

\* The goroutine of lines 255-273 as it starts: no unit read, none in hand.
NewRelay == [read |-> 0, held |-> FALSE, ended |-> FALSE]

\* OnTrack, lines 239-274, under trackMutex: the forwarding sink is created
\* if the publisher has none yet, and a goroutine relaying the track starts.
\* The client offers an audio and a video track, so a transport announces
\* more than one.
OnTrack(k) ==
    LET pc == peers[k]
        n == pc.nTrack + 1
        p == pubHeap[pc.owner]
    IN
    /\ pc.role = "P" /\ "track" \in pc.callbacks /\ pc.remoteDescription
    /\ pc.nTrack < MaxTracks
    /\ Free(trackMutex(pc.owner))
    /\ peers' = [peers EXCEPT ![k].nTrack = n, ![k].relay = Append(@, NewRelay)]
    /\ IF p.publisherTrack = nil
       THEN /\ pubHeap' = [pubHeap EXCEPT ![pc.owner].publisherTrack = SinkOf(k, n)]
            /\ tracks' = (SinkOf(k, n) :> <<>>) @@ tracks
       ELSE UNCHANGED <<pubHeap, tracks>>
    /\ UNCHANGED <<publishers, viewers, viewHeap, cookie, reqs, watchdog, locks>>

(* ------------------------------ media relay ---------------------------- *)
\* The m-th unit of the n-th remote track of transport k.
Unit(k, n, m) == <<k, n, m>>

\* track.ReadRTP(), lines 257-261, in the goroutine of track n of transport k:
\* the next unit of the track is read, or the read fails (the transport was
\* closed) and the loop ends.
ReadRTP(k, n, ok) ==
    LET g == peers[k].relay[n] IN
    /\ ~g.ended /\ ~g.held
    /\ IF ok
       THEN /\ g.read < MaxUnits
            /\ peers' = [peers EXCEPT ![k].relay[n].read = @ + 1,
                                      ![k].relay[n].held = TRUE]
       ELSE /\ peers[k].connState = "closed"
            /\ peers' = [peers EXCEPT ![k].relay[n].ended = TRUE]
    /\ UNCHANGED <<publishers, viewers, pubHeap, viewHeap, cookie, reqs, tracks, watchdog, locks>>

\* The loop without the break of line 270: a unit whose write failed is
\* dropped and the loop goes on.
WriteRTPIgnoringError(k, n, ok) ==
    LET g == peers[k].relay[n]
        sink == pubHeap[peers[k].owner].publisherTrack
    IN
    /\ ~g.ended /\ g.held
    /\ peers' = [peers EXCEPT ![k].relay[n].held = FALSE]
    /\ tracks' = IF ok THEN [tracks EXCEPT ![sink] = Append(@, Unit(k, n, g.read))]
                 ELSE tracks
    /\ UNCHANGED <<publishers, viewers, pubHeap, viewHeap, cookie, reqs, watchdog, locks>>

\* The loop marking its publisher invalid when it ends on a failed write.
WriteRTPInvalidating(k, n, ok) ==
    LET g == peers[k].relay[n]
        sink == pubHeap[peers[k].owner].publisherTrack
    IN
    /\ ~g.ended /\ g.held
    /\ IF ok
       THEN /\ peers' = [peers EXCEPT ![k].relay[n].held = FALSE]
            /\ tracks' = [tracks EXCEPT ![sink] = Append(@, Unit(k, n, g.read))]
            /\ UNCHANGED pubHeap
       ELSE /\ peers' = [peers EXCEPT ![k].relay[n].held = FALSE,
                                      ![k].relay[n].ended = TRUE]
            /\ pubHeap' = [pubHeap EXCEPT ![peers[k].owner].Valid = FALSE]
            /\ UNCHANGED tracks
    /\ UNCHANGED <<publishers, viewers, viewHeap, cookie, reqs, watchdog, locks>>

\* p.publisherTrack.WriteRTP(packet), lines 268-271: the unit in hand is
\* written to the publisher's sink, or the write fails and the loop ends.
WriteRTP(k, n, ok) ==
    LET g == peers[k].relay[n]
        sink == pubHeap[peers[k].owner].publisherTrack
    IN
    /\ ~g.ended /\ g.held
    /\ IF ok
       THEN /\ peers' = [peers EXCEPT ![k].relay[n].held = FALSE]
            /\ tracks' = [tracks EXCEPT ![sink] = Append(@, Unit(k, n, g.read))]
       ELSE /\ peers' = [peers EXCEPT ![k].relay[n].held = FALSE,
                                      ![k].relay[n].ended = TRUE]
            /\ UNCHANGED tracks
    /\ UNCHANGED <<publishers, viewers, pubHeap, viewHeap, cookie, reqs, watchdog, locks>>

(* ------------------------------- watchdog ------------------------------ *)
\* The publishers a sweep logs "Watchdog: Publisher is connected." for.
WatchdogConnected ==
    {o \in Registered :
        pubHeap[o].peerConnectionPublisher # nil /\ pubHeap[o].publisherTrack # nil}

\* A sweep that also removes from the registry the publishers it logs
\* "No Publisher connected." for.
startWatchdogEvicting ==
    /\ ~Crashed
    /\ <<lviewers, WatchdogTask>> \in locks
    /\ \A o \in Registered : <<trackMutex(o), WatchdogTask>> \in locks
    /\ watchdog' = Cardinality(WatchdogConnected)
    /\ publishers' = [s \in SessionIDs |->
                         IF publishers[s] \in WatchdogConnected THEN publishers[s] ELSE nil]
    /\ locks' = {x \in locks : x[2] # WatchdogTask}
    /\ UNCHANGED <<viewers, pubHeap, viewHeap, peers, cookie, reqs, tracks>>

\* A tick of startWatchdog, line 87: lpublishers.Lock().
WatchdogLock ==
    /\ ~Crashed
    /\ Free(lpublishers)
    /\ \A x \in locks : x[2] # WatchdogTask
    /\ locks' = Lock(locks, lpublishers, WatchdogTask)
    /\ UNCHANGED <<publishers, viewers, pubHeap, viewHeap, peers, cookie, reqs, tracks,
                   watchdog>>

\* Line 88: lviewers.Lock(), holding lpublishers.
WatchdogLockViewers ==
    /\ ~Crashed
    /\ <<lpublishers, WatchdogTask>> \in locks
    /\ Free(lviewers)
    /\ locks' = Lock(locks, lviewers, WatchdogTask)
    /\ UNCHANGED <<publishers, viewers, pubHeap, viewHeap, peers, cookie, reqs, tracks,
                   watchdog>>

\* The sweep, lines 90-92: the trackMutex of the publisher visited.  The
\* registry has one key (SessionID), so a sweep visits at most one publisher.
WatchdogVisit ==
    /\ ~Crashed
    /\ <<lviewers, WatchdogTask>> \in locks
    /\ \E o \in Registered :
          /\ Free(trackMutex(o))
          /\ locks' = Lock(locks, trackMutex(o), WatchdogTask)
    /\ UNCHANGED <<publishers, viewers, pubHeap, viewHeap, peers, cookie, reqs, tracks,
                   watchdog>>

\* The sweep, lines 93-114: the publisher's transport handle and sink are read
\* and logged, then its trackMutex and both registry mutexes are released.
startWatchdog ==
    /\ ~Crashed
    /\ <<lviewers, WatchdogTask>> \in locks
    /\ \A o \in Registered : <<trackMutex(o), WatchdogTask>> \in locks
    /\ watchdog' = Cardinality(WatchdogConnected)
    /\ locks' = {x \in locks : x[2] # WatchdogTask}
    /\ UNCHANGED <<publishers, viewers, pubHeap, viewHeap, peers, cookie, reqs, tracks>>

(* ------------------------- candidate exchange -------------------------- *)
\* The candidate request i posts.
RemoteCand(i) == <<"remote", i>>

\* An unparsable body of a candidate post.
Garbage == <<"garbage">>

\* The body of a candidate post that is request i: unparsable, or its candidate.
CandBodies(i) == {Garbage, RemoteCand(i)}

\* handleIceCandidatePublisher lines 553-569 / handleIceCandidateViewer lines
\* 602-618 on a session object whose transport handle is pc and whose pending
\* queue is pending: nothing without a transport, buffered without a remote
\* description, added to the transport otherwise.
applyOrBuffer(pc, pending, cand) ==
    IF pc = nil
    THEN [pending |-> pending, addTo |-> nil]
    ELSE IF ~peers[pc].remoteDescription
    THEN [pending |-> Append(pending, cand), addTo |-> nil]
    ELSE [pending |-> pending, addTo |-> pc]

\* AddICECandidate(cand) on transport k (none when k is nil).
AddICECandidate(k, cand) ==
    IF k = nil THEN peers ELSE [peers EXCEPT ![k].added = Append(@, cand)]

\* A request handled in one step, as it is logged once answered.
Handled(h, c, cand, status, panic, cands) ==
    [handler |-> h, client |-> c, body |-> "", cand |-> cand, cookie |-> cookie[c],
     at |-> "done", sel |-> nil, status |-> status, wrote |-> ~panic,
     setCookie |-> NoSetCookie, panic |-> panic, candidates |-> cands,
     engineFailed |-> FALSE, fatal |-> FALSE]

\* handleIceCandidatePublisher, lines 543-572; ok: whether the Transport
\* Engine accepts the candidate when AddICECandidate is called (500 if not).
handleIceCandidatePublisher(c, body, ok) ==
    LET i == Len(reqs) + 1
        res == lookupPublisher(cookie[c], FALSE)
        p == res.p
        out == applyOrBuffer(p.peerConnectionPublisher, p.pendingRemoteCandidatesP, body)
        h == "ice-candidate-p"
    IN
    /\ i <= MaxReq
    /\ Free(remoteCandidatesMtxP(i))
    /\ IF body = Garbage
       THEN /\ reqs' = Append(reqs, Handled(h, c, body, StatusBadRequest, FALSE, <<>>))
            /\ UNCHANGED <<pubHeap, peers>>
       ELSE IF res.panic
       THEN /\ reqs' = Append(reqs, Handled(h, c, body, NoResponse, TRUE, <<>>))
            /\ UNCHANGED <<pubHeap, peers>>
       ELSE IF out.addTo # nil /\ ~ok
       THEN /\ reqs' = Append(reqs, Handled(h, c, body, StatusInternalServerError,
                                            FALSE, <<>>))
            /\ pubHeap' = (i :> p) @@ pubHeap
            /\ UNCHANGED peers
       ELSE /\ reqs' = Append(reqs, Handled(h, c, body, StatusOK, FALSE, <<>>))
            /\ pubHeap' = (i :> [p EXCEPT !.pendingRemoteCandidatesP = out.pending])
                          @@ pubHeap
            /\ peers' = AddICECandidate(out.addTo, body)
    /\ UNCHANGED <<publishers, viewers, viewHeap, cookie, tracks, watchdog, locks>>

\* handleIceCandidateViewer, lines 592-621.
handleIceCandidateViewer(c, body, ok) ==
    LET i == Len(reqs) + 1
        res == lookupViewer(cookie[c])
        v == res.v
        out == applyOrBuffer(v.peerConnectionViewer, v.pendingRemoteCandidatesV, body)
        h == "ice-candidate-v"
    IN
    /\ i <= MaxReq
    /\ Free(remoteCandidatesMtxV(i))
    /\ res.created => Free(lviewers)
    /\ viewers' = IF res.created THEN [viewers EXCEPT ![SessionID(c)] = i] ELSE viewers
    /\ cookie' = IF res.setCookie.set
                 THEN [cookie EXCEPT ![c] = res.setCookie.value]
                 ELSE cookie
    /\ IF body = Garbage
       THEN /\ reqs' = Append(reqs, Handled(h, c, body, StatusBadRequest, FALSE, <<>>))
            /\ viewHeap' = (i :> v) @@ viewHeap
            /\ UNCHANGED peers
       ELSE IF out.addTo # nil /\ ~ok
       THEN /\ reqs' = Append(reqs, Handled(h, c, body, StatusInternalServerError,
                                            FALSE, <<>>))
            /\ viewHeap' = (i :> v) @@ viewHeap
            /\ UNCHANGED peers
       ELSE /\ reqs' = Append(reqs, Handled(h, c, body, StatusOK, FALSE, <<>>))
            /\ viewHeap' = (i :> [v EXCEPT !.pendingRemoteCandidatesV = out.pending])
                           @@ viewHeap
            /\ peers' = AddICECandidate(out.addTo, body)
    /\ UNCHANGED <<publishers, pubHeap, tracks, watchdog, locks>>

\* handleIceCandidatesPublisher, lines 574-590: the outbound queue of the
\* object looked up is swapped for nil under its ice mutex and returned.
handleIceCandidatesPublisher(c) ==
    LET i == Len(reqs) + 1
        res == lookupPublisher(cookie[c], FALSE)
        p == res.p
        h == "ice-candidates-p"
    IN
    /\ i <= MaxReq
    /\ Free(iceMutexP(i))
    /\ IF res.panic
       THEN /\ reqs' = Append(reqs, Handled(h, c, <<>>, NoResponse, TRUE, <<>>))
            /\ UNCHANGED pubHeap
       ELSE /\ reqs' = Append(reqs, Handled(h, c, <<>>, StatusOK, FALSE,
                                            p.iceCandidatesP))
            /\ pubHeap' = (i :> [p EXCEPT !.iceCandidatesP = <<>>]) @@ pubHeap
    /\ UNCHANGED <<publishers, viewers, viewHeap, peers, cookie, tracks, watchdog, locks>>

\* handleIceCandidatesViewer, lines 623-638.
handleIceCandidatesViewer(c) ==
    LET i == Len(reqs) + 1
        res == lookupViewer(cookie[c])
        v == res.v
        h == "ice-candidates-v"
    IN
    /\ i <= MaxReq
    /\ Free(iceMutexV(i))
    /\ res.created => Free(lviewers)
    /\ viewers' = IF res.created THEN [viewers EXCEPT ![SessionID(c)] = i] ELSE viewers
    /\ cookie' = IF res.setCookie.set
                 THEN [cookie EXCEPT ![c] = res.setCookie.value]
                 ELSE cookie
    /\ reqs' = Append(reqs, Handled(h, c, <<>>, StatusOK, FALSE, v.iceCandidatesV))
    /\ viewHeap' = (i :> [v EXCEPT !.iceCandidatesV = <<>>]) @@ viewHeap
    /\ UNCHANGED <<publishers, pubHeap, peers, tracks, watchdog, locks>>

Next ==
    \/ \E c \in Senders, b \in OfferBodies : PubLookup(c, b)
    \/ \E i \in Running : PubInsert(i)
    \/ \E i \in Running, o \in PubEngineOutcomes : PubNewPC(i, o)
    \/ \E c \in Senders, b \in OfferBodies : ViewLookup(c, b)
    \/ \E i \in Running, ok \in BOOLEAN : ViewNewPC(i, ok)
    \/ \E i \in Running : ViewSelect(i)
    \/ \E i \in Running, ok \in BOOLEAN : ViewAttach(i, ok)
    \/ \E i \in Running : RegisterCallbacks(i)
    \/ \E i \in Running : SetRemoteDescription(i)
    \/ \E i \in Running, ok \in BOOLEAN : Answer(i, ok)
    \/ \E k \in Engines : OnICECandidate(k)
    \/ \E k \in Engines, s \in ConnStates : OnConnectionStateChange(k, s)
    \/ \E k \in Engines : OnTrack(k)
    \/ WatchdogLock
    \/ WatchdogLockViewers
    \/ WatchdogVisit
    \/ startWatchdog
    \/ \E c \in Senders, b \in CandBodies(Len(reqs) + 1), ok \in BOOLEAN :
          handleIceCandidatePublisher(c, b, ok)
    \/ \E c \in Senders, b \in CandBodies(Len(reqs) + 1), ok \in BOOLEAN :
          handleIceCandidateViewer(c, b, ok)
    \/ \E c \in Senders : handleIceCandidatesPublisher(c)
    \/ \E c \in Senders : handleIceCandidatesViewer(c)

Spec == Init /\ [][Next]_vars

(* The relay goroutines write only their own records and the sinks, which no  *)
(* handler, callback or sweep reads: the media relay is checked on its own,   *)
(* with the steps of /publish that lead to a track event.                     *)
RelayNext ==
    \/ \E c \in Senders, b \in OfferBodies : PubLookup(c, b)
    \/ \E i \in Running : PubInsert(i)
    \/ \E i \in Running, o \in PubEngineOutcomes : PubNewPC(i, o)
    \/ \E i \in Running : RegisterCallbacks(i)
    \/ \E i \in Running : SetRemoteDescription(i)
    \/ \E i \in Running, ok \in BOOLEAN : Answer(i, ok)
    \/ \E k \in Engines, s \in ConnStates : OnConnectionStateChange(k, s)
    \/ \E k \in Engines : OnTrack(k)
    \/ \E k \in Engines, ok \in BOOLEAN :
          \E n \in DOMAIN peers[k].relay : ReadRTP(k, n, ok)
    \/ \E k \in Engines, ok \in BOOLEAN :
          \E n \in DOMAIN peers[k].relay : WriteRTP(k, n, ok)

RelaySpec == Init /\ [][RelayNext]_vars

(* ============================== claims ================================= *)
Reqs == DOMAIN reqs
Done(i) == reqs[i].at = "done"
IsPublish(i) == reqs[i].handler = "publish"
IsView(i) == reqs[i].handler = "view"
IsPost(i) == reqs[i].handler \in {"ice-candidate-p", "ice-candidate-v"}
IsPoll(i) == reqs[i].handler \in {"ice-candidates-p", "ice-candidates-v"}
RoleOf(i) == IF reqs[i].handler \in {"publish", "ice-candidate-p", "ice-candidates-p"}
             THEN "P" ELSE "V"
SameSession(i, j) ==
    /\ RoleOf(i) = RoleOf(j)
    /\ reqs[i].client = reqs[j].client
Range(q) == {q[n] : n \in DOMAIN q}

\* The pending queue of the session object at address o.
PendingOf(role, o) ==
    IF role = "P" THEN pubHeap[o].pendingRemoteCandidatesP
    ELSE viewHeap[o].pendingRemoteCandidatesV
\* The candidates some session object of the role holds in its pending queue.
Buffered(role) ==
    IF role = "P"
    THEN UNION {Range(pubHeap[o].pendingRemoteCandidatesP) : o \in DOMAIN pubHeap}
    ELSE UNION {Range(viewHeap[o].pendingRemoteCandidatesV) : o \in DOMAIN viewHeap}

\* Request i is received and handled to its end in this step.
Arrives(i) == i \notin DOMAIN reqs /\ i \in DOMAIN reqs'
\* The response of request i is produced in this step.
Answered(i) ==
    /\ i \in DOMAIN reqs'
    /\ reqs'[i].at = "done"
    /\ (i \in DOMAIN reqs => reqs[i].at # "done")
\* The remote description of the transport of request i is set in this step.
RemoteSet(i) ==
    /\ i \in DOMAIN peers /\ ~peers[i].remoteDescription
    /\ peers'[i].remoteDescription
\* Request i performs its publisher selection in this step.
Selects(i) == i \in DOMAIN reqs /\ IsView(i) /\ reqs[i].at = "select" /\ reqs'[i].at # "select"

\* Whether sequence q holds the elements of sequence sub, in sub's order.
InOrderIn(sub, q) ==
    \E f \in [DOMAIN sub -> DOMAIN q] :
        /\ \A n \in DOMAIN sub : q[f[n]] = sub[n]
        /\ \A m, n \in DOMAIN sub : m < n => f[m] < f[n]

\* The candidates this browser posted for this role before now, in posting order.
PostedBefore(i) ==
    LET idx == {j \in Reqs : IsPost(j) /\ SameSession(i, j) /\ reqs[j].cand # Garbage}
        F[n \in 0..Len(reqs)] ==
            IF n = 0 THEN <<>>
            ELSE IF n \in idx THEN Append(F[n - 1], reqs[n].cand) ELSE F[n - 1]
    IN F[Len(reqs)]

\* C1: when /publish or /view sets the remote description of a session, the
\* candidates posted for that session before are all added to the transport,
\* in posting order, and the pending queue of the session is empty afterwards.
C1_DrainedInPostingOrder ==
    [][\A i \in Reqs :
         RemoteSet(i) =>
            /\ InOrderIn(PostedBefore(i), peers'[i].added)
            /\ IsPublish(i) => PendingOf("P", i)' = <<>>
            /\ IsView(i) => PendingOf("V", i)' = <<>>]_vars

\* C2: a candidate posted while no remote description is set (also before the
\* session has any transport) is appended to the pending queue of a session
\* object and is added to no transport in that step: it is not dropped.
C2_PostedCandidateIsBuffered ==
    [][\A i \in DOMAIN reqs' :
         (/\ Arrives(i)
          /\ reqs'[i].handler \in {"ice-candidate-p", "ice-candidate-v"}
          /\ reqs'[i].cand # Garbage
          /\ \A k \in DOMAIN peers : ~peers[k].remoteDescription)
         => /\ \/ RoleOf(i)' = "P" /\ reqs'[i].cand \in Buffered("P")'
               \/ RoleOf(i)' = "V" /\ reqs'[i].cand \in Buffered("V")'
            /\ peers' = peers]_vars

\* The session object the registry maps the session id of client c to.
RegisteredFor(role, c) ==
    IF role = "P" THEN publishers[SessionID(c)] ELSE viewers[SessionID(c)]
OutboundOf(role, o) ==
    IF role = "P" THEN pubHeap[o].iceCandidatesP ELSE viewHeap[o].iceCandidatesV

\* C3: a poll returns the previous contents of the outbound queue of the
\* session, which is empty afterwards, and no candidate is returned by two polls.
C3_PollDrainsSessionQueue ==
    [][\A i \in DOMAIN reqs' :
         (/\ Arrives(i)
          /\ reqs'[i].handler \in {"ice-candidates-p", "ice-candidates-v"}
          /\ \E c \in Clients : c = reqs'[i].client /\ RegisteredFor(RoleOf(i)', c) # nil)
         => /\ \A c \in Clients, role \in Roles :
                  (c = reqs'[i].client /\ role = RoleOf(i)')
                  => /\ reqs'[i].candidates = OutboundOf(role, RegisteredFor(role, c))
                     /\ \A o \in {RegisteredFor(role, c)} : OutboundOf(role, o)' = <<>>
            /\ \A j \in Reqs : Range(reqs[j].candidates)
                                 \cap Range(reqs'[i].candidates) = {}]_vars

\* No Publisher object is Connected.
NoPublisherConnected == \A o \in DOMAIN pubHeap : ~pubHeap[o].Valid

\* C4: a /view that selects while no Publisher Session is Connected is answered
\* 503 in that step, and the Viewer of a /view answered 503 is never Connected.
C4_NoPublisherMeans503 ==
    /\ [][\A i \in Reqs :
            (Selects(i) /\ NoPublisherConnected)
            => reqs'[i].at = "done" /\ reqs'[i].status = StatusServiceUnavailable]_vars
    /\ [](\A i \in Reqs :
            (IsView(i) /\ Done(i) /\ reqs[i].status = StatusServiceUnavailable)
            => ~viewHeap[i].valid)

\* A /view was answered 503 at its selection although it had created a transport.
C4_Witness ==
    \E i \in Reqs :
        /\ IsView(i) /\ Done(i) /\ reqs[i].status = StatusServiceUnavailable
        /\ reqs[i].sel = nil /\ i \in DOMAIN peers
        /\ NoPublisherConnected

\* C5: after a /view answered 503 the Viewer Session references no transport
\* instance created for that request.
C5_No503TransportLeft ==
    \A i \in Reqs :
        (IsView(i) /\ Done(i) /\ reqs[i].status = StatusServiceUnavailable)
        => viewHeap[i].peerConnectionViewer = nil

\* C6: /publish and /view answer a malformed offer (unparsable, or of a type
\* other than "offer") with 400 and create no transport instance for it.
C6_MalformedOffer400 ==
    \A i \in Reqs :
        ((IsPublish(i) \/ IsView(i)) /\ Done(i) /\ reqs[i].body \in {"garbage", "answer"})
        => /\ reqs[i].status = StatusBadRequest
           /\ i \notin DOMAIN peers

\* C7: a step that answers a request with 400 changes neither the registry
\* mappings nor any session object, and allocates none.
C7_Rejected400ChangesNothing ==
    [][\A i \in DOMAIN reqs' :
         (Answered(i) /\ reqs'[i].status = StatusBadRequest)
         => /\ publishers' = publishers /\ viewers' = viewers
            /\ pubHeap' = pubHeap /\ viewHeap' = viewHeap]_vars

\* C8: a /publish of a well-formed offer is answered 200 with a transport
\* created; its Publisher is not selectable before its transport reports
\* "connected" and is selectable while "connected" is the state last reported.
C8_PublishThenConnectedSelectable ==
    \A i \in Reqs :
        (IsPublish(i) /\ Done(i) /\ reqs[i].body = "offer" /\ ~reqs[i].engineFailed)
        => /\ reqs[i].status = StatusOK
           /\ i \in DOMAIN peers
           /\ peers[i].connState = "new" => i \notin randPublisher
           /\ peers[i].connState = "connected" => i \in randPublisher

\* C9: a selection returns a registered Publisher whose Valid is set at that
\* moment, or none, and none only when no registered Publisher has Valid set.
C9_SelectsConnectedRegistered ==
    [][\A i \in Reqs :
         (Selects(i) /\ ~reqs'[i].fatal) =>
            IF reqs'[i].at = "attach"
            THEN reqs'[i].sel \in Registered /\ pubHeap[reqs'[i].sel].Valid
            ELSE /\ reqs'[i].status = StatusServiceUnavailable
                 /\ \A o \in Registered : ~pubHeap[o].Valid]_vars

\* A /view went through its selection step and the scan returned a
\* registered Publisher that is still Connected.
C9_Witness ==
    \E i \in Reqs :
        /\ IsView(i) /\ reqs[i].sel # nil
        /\ reqs[i].sel \in Registered /\ pubHeap[reqs[i].sel].Valid

\* C10: all lookupOrCreate calls of one session id and role return one and the
\* same object, the one the registry maps the id to.  (The object a request's
\* lookup returned is the one at the request's address.)
C10_LookupOrCreateIdempotent ==
    \A i \in Reqs :
        /\ (IsPublish(i) /\ reqs[i].at # "insert")
           => publishers[SessionID(reqs[i].client)] = i
        /\ (IsView(i) \/ RoleOf(i) = "V") => viewers[SessionID(reqs[i].client)] = i

\* Browser c sent no /publish so far.
NeverPublished(c) == \A j \in Reqs : ~(IsPublish(j) /\ reqs[j].client = c)

\* C11: the candidate post and poll of the publisher role never change the
\* registry, and for a browser that never issued /publish they return
\* normally, without a fault and without touching any session object.
C11_ReadOnlyLookupNoFault ==
    [][\A i \in DOMAIN reqs' :
         (Arrives(i) /\ reqs'[i].handler \in {"ice-candidate-p", "ice-candidates-p"})
         => /\ publishers' = publishers
            /\ (\E c \in Clients : c = reqs'[i].client /\ NeverPublished(c))
               => /\ ~reqs'[i].panic
                  /\ pubHeap' = pubHeap /\ peers' = peers]_vars

\* The forwarding sinks of the Publisher Session of browser c: those of the
\* objects its /publish requests were served with.
SinksOf(c) ==
    {pubHeap[i].publisherTrack : i \in {j \in Reqs : IsPublish(j) /\ reqs[j].client = c}}
        \ {nil}

\* C12: the forwarding sink of a Publisher, once set, is never replaced or
\* reset, and a Publisher Session has at most one over its lifetime, also
\* across the track events of a later /publish of the same session.
C12_OneSinkPerPublisher ==
    /\ [][\A o \in DOMAIN pubHeap :
            pubHeap[o].publisherTrack # nil
            => pubHeap'[o].publisherTrack = pubHeap[o].publisherTrack]_vars
    /\ [](\A c \in Clients : Cardinality(SinksOf(c)) <= 1)

\* Whether the transport with handle k (nil: none) has a remote description.
hasRemoteDescription(k) == k # nil /\ peers[k].remoteDescription

C14_CallbacksBeforeSetRemote ==
    [][\A i \in DOMAIN peers :
         RemoteSet(i) =>
            /\ {"candidate", "state"} \subseteq peers[i].callbacks
            /\ peers[i].role = "P" => "track" \in peers[i].callbacks]_vars

\* The remote description of a publisher's and of a viewer's transport is
\* set, with all their callbacks registered.
C14_Witness ==
    /\ \E i \in DOMAIN peers :
          /\ peers[i].role = "P" /\ peers[i].remoteDescription
          /\ peers[i].callbacks = {"candidate", "state", "track"}
    /\ \E i \in DOMAIN peers :
          /\ peers[i].role = "V" /\ peers[i].remoteDescription
          /\ peers[i].callbacks = {"candidate", "state"}

\* The validity flag of the session object that owns transport k.
ValidOf(k) ==
    IF peers[k].role = "P" THEN pubHeap[peers[k].owner].Valid
    ELSE viewHeap[peers[k].owner].valid

\* C15: once the connection-state callback of a session reported "failed" or
\* "closed", no later step makes its validity flag true or the session
\* selectable again.
C15_FailedClosedTerminal ==
    [][\A k \in DOMAIN peers :
         peers[k].connState \in {"failed", "closed"}
         => /\ ~ValidOf(k)'
            /\ peers[k].role = "P" => peers[k].owner \notin randPublisher']_vars

\* C16: a sweep of the watchdog changes neither the registries nor any field
\* of any Publisher or Viewer, nor any transport or sink.
C16_WatchdogReadsOnly ==
    [][watchdog' # watchdog
       => UNCHANGED <<publishers, viewers, pubHeap, viewHeap, peers, tracks>>]_vars

\* A sweep ran and logged a connected publisher.
C16_Witness == watchdog = 1

\* The units read so far from the n-th remote track of transport k, in order.
ReadFrom(k, n) == [m \in 1..peers[k].relay[n].read |-> Unit(k, n, m)]

\* Whether sequence q is a prefix of sequence r.
IsPrefix(q, r) == Len(q) <= Len(r) /\ \A m \in DOMAIN q : q[m] = r[m]

\* C17: what was written to a publisher's forwarding sink is a prefix of what
\* was read from the inbound track the sink was created for: nothing
\* reordered, duplicated, altered or skipped.
C17_SinkIsPrefixOfTrack ==
    \A k \in DOMAIN peers : \A n \in DOMAIN peers[k].relay :
        SinkOf(k, n) \in DOMAIN tracks
        => IsPrefix(tracks[SinkOf(k, n)], ReadFrom(k, n))

\* C19: a /publish or /view in which a Transport Engine call failed is
\* answered 500, and a transport instance created for it stays stored in the
\* session.
C19_EngineFailure500 ==
    \A i \in Reqs :
        (Done(i) /\ reqs[i].engineFailed)
        => /\ reqs[i].status = StatusInternalServerError
           /\ (i \in DOMAIN peers /\ IsPublish(i)) => pubHeap[i].peerConnectionPublisher = i
           /\ (i \in DOMAIN peers /\ IsView(i)) => viewHeap[i].peerConnectionViewer = i

\* C20: in the state that results from the connection-state callback
\* reporting "failed" or "closed", the validity flag of the session is false
\* whatever it was, and the selection does not return that publisher.
C20_FailedClosedClearsValid ==
    [][\A k \in DOMAIN peers :
         (/\ peers'[k].connState \in {"failed", "closed"}
          /\ peers'[k].connState # peers[k].connState)
         => /\ ~ValidOf(k)'
            /\ peers[k].role = "P" => peers[k].owner \notin randPublisher']_vars

\* The transport of a registered publisher reported "closed" or "failed" and
\* the publisher is not Connected, while its answer had been sent.
C20_Witness ==
    \E k \in DOMAIN peers :
        /\ peers[k].role = "P" /\ peers[k].connState \in {"failed", "closed"}
        /\ peers[k].owner \in Registered
        /\ ~pubHeap[peers[k].owner].Valid /\ Done(k)

\* The transports of the session of browser c in the role whose remote
\* description is set.
WithRemoteDescription(role, c) ==
    {k \in DOMAIN peers : /\ peers[k].role = role
                          /\ reqs[k].client = c
                          /\ peers[k].remoteDescription}

\* C21: a candidate posted while the remote description of its session is set
\* is added to the session's transport in that request and to no pending
\* queue, or the request is answered 500 and queues and transports are as before.
C21_PostAfterRemoteApplied ==
    [][\A i \in DOMAIN reqs' :
         \A c \in Clients, role \in Roles :
            (/\ Arrives(i)
             /\ reqs'[i].handler \in {"ice-candidate-p", "ice-candidate-v"}
             /\ reqs'[i].cand # Garbage
             /\ c = reqs'[i].client /\ role = RoleOf(i)'
             /\ WithRemoteDescription(role, c) # {})
            => \/ /\ \E k \in WithRemoteDescription(role, c) :
                        reqs'[i].cand \in Range(peers'[k].added)
                  /\ Buffered(role)' = Buffered(role)
               \/ /\ reqs'[i].status = StatusInternalServerError
                  /\ Buffered(role)' = Buffered(role)
                  /\ peers' = peers]_vars

\* C22: a candidate posted after a /publish or /view of its session started is
\* added to the transport of that request by the time the request is answered
\* with the remote description set, whatever the interleaving.
C22_InterleavedPostApplied ==
    \A i, j \in Reqs :
        (/\ IsPublish(i) \/ IsView(i)
         /\ Done(i) /\ reqs[i].status = StatusOK /\ ~reqs[i].engineFailed
         /\ i \in DOMAIN peers /\ peers[i].remoteDescription
         /\ j > i /\ IsPost(j) /\ SameSession(i, j)
         /\ reqs[j].cand # Garbage /\ reqs[j].status # StatusInternalServerError)
        => reqs[j].cand \in Range(peers[i].added)

\* What the completed polls of browser c for the role returned, one after another.
PolledBy(role, c) ==
    LET idx == {j \in Reqs : /\ IsPoll(j) /\ RoleOf(j) = role /\ reqs[j].client = c
                             /\ reqs[j].status = StatusOK}
        F[n \in 0..Len(reqs)] ==
            IF n = 0 THEN <<>>
            ELSE IF n \in idx THEN F[n - 1] \o reqs[n].candidates ELSE F[n - 1]
    IN F[Len(reqs)]

\* The local candidates transport k discovered so far, in discovery order.
Discovered(k) == [n \in 1..peers[k].nCand |-> LocalCand(k, n)]

\* C23: for every transport of a session, what the session's completed polls
\* returned followed by the outbound queue of the transport's owner is the
\* sequence of candidates the transport discovered, in discovery order.
C23_PolledThenQueuedIsDiscovered ==
    \A k \in DOMAIN peers :
        PolledBy(peers[k].role, reqs[k].client)
            \o OutboundOf(peers[k].role, peers[k].owner) = Discovered(k)

\* A transport discovered a candidate and its browser completed a poll since
\* the transport exists.
C23_Witness ==
    \E k \in DOMAIN peers, j \in Reqs :
        /\ peers[k].nCand >= 1
        /\ j > k /\ IsPoll(j) /\ SameSession(k, j) /\ reqs[j].status = StatusOK

\* The relay goroutines still in their loop whose writes go to sink s.
WritersOf(s) ==
    {<<k, n>> \in (DOMAIN peers) \X (1..MaxTracks) :
        /\ n \in DOMAIN peers[k].relay
        /\ ~peers[k].relay[n].ended
        /\ pubHeap[peers[k].owner].publisherTrack = s}

\* C24: at any time at most one relay goroutine in its loop writes to a given
\* forwarding sink.
C24_OneWriterPerSink ==
    \A s \in DOMAIN tracks : Cardinality(WritersOf(s)) <= 1

\* C25: every scan of the registry by randPublisher is made holding lpublishers,
\* and none is made while another request is writing the publishers map.
C25_RegistryScanUnderLock ==
    [][\A i \in Reqs :
         Selects(i) => /\ <<lpublishers, i>> \in locks
                       /\ ~MapWriteInProgress]_vars

\* C26: while the sweep of the watchdog holds the trackMutex of a Publisher to
\* read its transport handle and sink, no other task writes them.
C26_WatchdogReadsUnderWritersLock ==
    [][\A o \in DOMAIN pubHeap :
         <<trackMutex(o), WatchdogTask>> \in locks
         => /\ pubHeap'[o].peerConnectionPublisher = pubHeap[o].peerConnectionPublisher
            /\ pubHeap'[o].publisherTrack = pubHeap[o].publisherTrack]_vars

\* The relay goroutines started so far: track n of transport k.
Relays == {<<k, n>> \in (DOMAIN peers) \X (1..MaxTracks) : n \in DOMAIN peers[k].relay}

\* The units of relay <<k, n>> the sinks hold.
WrittenBy(k, n) ==
    UNION {{<<s, x>> : x \in {y \in DOMAIN tracks[s] :
                                tracks[s][y][1] = k /\ tracks[s][y][2] = n}}
           : s \in DOMAIN tracks}

\* C27: a relay loop that ended reads and writes nothing more; a loop ends in
\* the step in which its read or its write fails, and in no other step.
C27_RelayEndsOnErrorOnly ==
    [][\A k \in DOMAIN peers : \A n \in DOMAIN peers[k].relay :
         /\ peers[k].relay[n].ended
            => /\ peers'[k].relay[n] = peers[k].relay[n]
               /\ WrittenBy(k, n)' = WrittenBy(k, n)
         /\ (/\ peers[k].relay[n].held /\ ~peers'[k].relay[n].held
             /\ WrittenBy(k, n)' = WrittenBy(k, n))
            => peers'[k].relay[n].ended
         /\ (~peers[k].relay[n].ended /\ peers'[k].relay[n].ended)
            => /\ peers'[k].relay[n].read = peers[k].relay[n].read
               /\ WrittenBy(k, n)' = WrittenBy(k, n)
               /\ ~peers'[k].relay[n].held]_vars

\* A relay loop ended on a failed write after it had read a unit.
C27_Witness ==
    \E k \in DOMAIN peers : \E n \in DOMAIN peers[k].relay :
        /\ peers[k].relay[n].ended /\ peers[k].relay[n].read >= 1
        /\ WrittenBy(k, n) = {}

\* C28: the step in which a relay loop ends leaves the session objects, the
\* registry and everything of the transports but the loop's own record as they
\* were: who is selectable is the same after it as before.
C28_RelayEndChangesNothing ==
    [][\A k \in DOMAIN peers : \A n \in DOMAIN peers[k].relay :
         (~peers[k].relay[n].ended /\ peers'[k].relay[n].ended)
         => /\ pubHeap' = pubHeap
            /\ publishers' = publishers
            /\ [peers' EXCEPT ![k].relay = peers[k].relay] = peers
            /\ randPublisher' = randPublisher]_vars

\* The relay loop of a registered, Connected publisher ended: the publisher is
\* still selectable.
C28_Witness ==
    \E k \in DOMAIN peers : \E n \in DOMAIN peers[k].relay :
        /\ peers[k].relay[n].ended
        /\ peers[k].owner \in randPublisher

\* C29: once the callbacks of the transport of a /view are registered or its
\* remote description is set, and so on every /view answered 200, the track
\* attached to the transport is the publisherTrack of the publisher the
\* request selected, which it never exchanges for another.
C29_AttachedTrackIsSelectedSink ==
    /\ [](\A i \in Reqs :
            (/\ IsView(i) /\ i \in DOMAIN peers
             /\ \/ peers[i].callbacks # {}
                \/ peers[i].remoteDescription
                \/ Done(i) /\ reqs[i].status = StatusOK)
            => /\ reqs[i].sel # nil
               /\ peers[i].track # nil
               /\ peers[i].track = pubHeap[reqs[i].sel].publisherTrack)
    /\ [][\A i \in Reqs :
            (IsView(i) /\ reqs[i].sel # nil) => reqs'[i].sel = reqs[i].sel]_vars

\* A /view was answered 200 with a track attached to its transport.
C29_Witness ==
    \E i \in Reqs :
        /\ IsView(i) /\ Done(i) /\ reqs[i].status = StatusOK /\ ~reqs[i].engineFailed
        /\ peers[i].track # nil /\ peers[i].remoteDescription

\* The transports of viewers.
ViewerTransports == {j \in DOMAIN peers : peers[j].role = "V"}

\* C30: a step in which the transport of a publisher reports a connection state
\* changes, besides that transport's own state, only the Valid flag of that
\* publisher: every Viewer object, the viewers registry and every viewer's
\* transport are as before, also for viewers bound to the publisher's sink.
C30_PublisherStateTouchesOnlyValid ==
    [][\A k \in DOMAIN peers :
         (peers[k].role = "P" /\ peers'[k].connState # peers[k].connState)
         => /\ viewHeap' = viewHeap
            /\ viewers' = viewers
            /\ \A j \in ViewerTransports : peers'[j] = peers[j]
            /\ [pubHeap' EXCEPT ![peers[k].owner].Valid = pubHeap[peers[k].owner].Valid]
                  = pubHeap
            /\ publishers' = publishers /\ tracks' = tracks]_vars

\* The transport of a publisher reported "failed" or "closed" while a Connected
\* viewer's transport carries the publisher's sink.
C30_Witness ==
    \E k \in DOMAIN peers, j \in ViewerTransports :
        /\ peers[k].role = "P" /\ peers[k].connState \in {"failed", "closed"}
        /\ peers[j].track # nil
        /\ peers[j].track = pubHeap[peers[k].owner].publisherTrack
        /\ viewHeap[peers[j].owner].valid

\* The mutexes task h holds.
HeldBy(h) == {x[1] : x \in {y \in locks : y[2] = h}}

\* C31: while the process runs, a mutex has one holder; a request holds a mutex
\* only inside the critical section it is in, and no other besides; the
\* watchdog holds lviewers and a trackMutex only with lpublishers; and every
\* holder of a mutex has a step it can take: no task waits for ever.
C31_NoDeadlockLocksReleased ==
    ~Crashed =>
        /\ \A x, y \in locks : x[1] = y[1] => x = y
        /\ \A x \in locks :
              x[2] # WatchdogTask
              => /\ x[2] \in Reqs /\ reqs[x[2]].at = "insert"
                 /\ HeldBy(x[2]) = {lpublishers}
                 /\ ENABLED PubInsert(x[2])
        /\ HeldBy(WatchdogTask) # {}
           => /\ lpublishers \in HeldBy(WatchdogTask)
              /\ (\E o \in DOMAIN pubHeap : trackMutex(o) \in HeldBy(WatchdogTask))
                 => lviewers \in HeldBy(WatchdogTask)
              /\ \/ ENABLED WatchdogLockViewers
                 \/ ENABLED WatchdogVisit
                 \/ ENABLED startWatchdog

\* The watchdog holds lpublishers, lviewers and the trackMutex of the publisher
\* a /view selected and is about to lock, while another request is in progress.
C31_Witness ==
    \E i \in Reqs :
        /\ IsView(i) /\ reqs[i].at = "attach"
        /\ trackMutex(reqs[i].sel) \in HeldBy(WatchdogTask)
        /\ lviewers \in HeldBy(WatchdogTask)
        /\ ~Crashed

\* The transports the /publish requests of browser c stored, and the one the
\* most recent of them stored: the session's current transport handle.
PublishTransports(c) ==
    {k \in DOMAIN peers : peers[k].role = "P" /\ reqs[k].client = c}
CurrentTransport(c) ==
    CHOOSE k \in PublishTransports(c) : \A j \in PublishTransports(c) : j <= k

\* C32: for a browser whose session stored more than one publisher transport,
\* no Publisher object of the session is Valid while the current transport
\* never reported a state or last reported "failed" or "closed", and a state
\* report of a superseded transport changes the Valid flag of none of them.
C32_ValidFollowsCurrentTransport ==
    /\ [](\A c \in Clients :
            Cardinality(PublishTransports(c)) > 1
            => \A o \in PublishTransports(c) :
                  pubHeap[o].Valid
                  => peers[CurrentTransport(c)].connState
                        \notin {"new", "failed", "closed"})
    /\ [][\A c \in Clients : \A k \in PublishTransports(c) :
            (/\ Cardinality(PublishTransports(c)) > 1
             /\ k # CurrentTransport(c)
             /\ peers'[k].connState # peers[k].connState)
            => \A o \in PublishTransports(c) : pubHeap'[o].Valid = pubHeap[o].Valid]_vars

\* Request i, a /view, passes lines 393-410 in this step.
Attaches(i) ==
    i \in DOMAIN reqs /\ IsView(i) /\ reqs[i].at = "attach" /\ reqs'[i].at # "attach"

\* C33: a /view whose selected publisher has no publisherTrack when the
\* handler looks is answered 503 in that step and nothing is added to the
\* viewer's transport, then or later; a track attached to a viewer's transport
\* is always an existing sink.
C33_NoSinkMeans503NothingAttached ==
    /\ [][\A i \in Reqs :
            (Attaches(i) /\ pubHeap[reqs[i].sel].publisherTrack = nil)
            => /\ reqs'[i].at = "done"
               /\ reqs'[i].status = StatusServiceUnavailable
               /\ peers' = peers]_vars
    /\ [](\A i \in Reqs :
            (IsView(i) /\ i \in DOMAIN peers)
            => /\ peers[i].track # nil => peers[i].track \in DOMAIN tracks
               /\ (Done(i) /\ reqs[i].status = StatusServiceUnavailable)
                  => peers[i].track = nil)

\* A /view that had selected a Connected publisher without publisherTrack was
\* answered 503 and its transport carries no track.
C33_Witness ==
    \E i \in Reqs :
        /\ IsView(i) /\ Done(i) /\ reqs[i].status = StatusServiceUnavailable
        /\ reqs[i].sel # nil
        /\ pubHeap[reqs[i].sel].Valid /\ pubHeap[reqs[i].sel].publisherTrack = nil
        /\ peers[i].track = nil

\* C34: a step in which a transport reports "connecting" or "disconnected"
\* leaves the Valid flag of its owner as it was, and with it who is selectable.
C34_OtherStatesKeepValid ==
    [][\A k \in DOMAIN peers :
         (/\ peers'[k].connState # peers[k].connState
          /\ peers'[k].connState \in {"connecting", "disconnected"})
         => /\ ValidOf(k)' = ValidOf(k)
            /\ randPublisher' = randPublisher]_vars

\* The transport of a registered, Connected publisher last reported
\* "disconnected" and the publisher is selectable.
C34_Witness ==
    \E k \in DOMAIN peers :
        /\ peers[k].role = "P" /\ peers[k].connState = "disconnected"
        /\ pubHeap[peers[k].owner].Valid
        /\ peers[k].owner \in randPublisher

==============================================================================
